---------------------------- MODULE Spec2Model ----------------------------
(***************************************************************************)
(* A model of jockey, a query tool over a Juju status snapshot.            *)
(*                                                                         *)
(* Strings are TLA+ strings; Len, \o and SubSeq are the only operations    *)
(* used on them.  A Python mapping is a sequence of entries in insertion   *)
(* order, each entry carrying the set of keys present in it ("keys"), so   *)
(* that reading a missing key is a KeyError and not a default value.       *)
(* A Python value that may be None is a record [t, s]; an operation that   *)
(* may raise yields a record with field "exc".                             *)
(***************************************************************************)
EXTENDS Integers, Sequences, FiniteSets, TLC

VARIABLES
    status,       \* the loaded snapshot (JujuStatus)
    filter_strs,  \* the filter strings given on the command line
    filters,      \* utils.parse_filter_string applied to each of them
    cli_filters,  \* filters.parse_filter applied to each of them
    result,       \* what consuming utils.filter_units produced
    args,         \* the object and the columns given on the command line
    objects,      \* the objects main collected
    filtered_objects,  \* the objects main kept
    stdout,       \* what print_table printed
    call,         \* the resolver called directly, and its argument
    returned,     \* what that call returned or raised
    pc            \* position of the invocation

vars == <<status, filter_strs, filters, cli_filters, result, args, objects,
          filtered_objects, stdout, call, returned, pc>>

---------------------------------------------------------------------------
(* Bounds of the model.                                                    *)

\* longest list of filter strings on one command line
MaxFilters == 2
\* longest filter string enumerated character by character
MaxLen == 4

---------------------------------------------------------------------------
(* Python strings.                                                         *)

Char(s, i) == SubSeq(s, i, i)

\* s[i:] with a 0-based offset i
From(s, i) == SubSeq(s, i + 1, Len(s))

\* s[:i] with a 0-based offset i
Upto(s, i) == SubSeq(s, 1, i)

\* s.startswith(c, i) with a 0-based offset i
StartsAt(s, c, i) == i + Len(c) <= Len(s) /\ SubSeq(s, i + 1, i + Len(c)) = c

\* c in v, for strings
Contains(c, v) == \E i \in 0..Len(v) : StartsAt(v, c, i)

\* c in v, for a one-character c and a string v
CharIn(c, v) == \E i \in 1..Len(v) : Char(v, i) = c

\* v.find(c): the 0-based offset of the first occurrence, -1 if none
Find(v, c) ==
    IF Contains(c, v)
    THEN CHOOSE i \in 0..Len(v) :
             StartsAt(v, c, i) /\ \A j \in 0..(i - 1) : ~StartsAt(v, c, j)
    ELSE -1

\* s.split(sep), sep not empty
RECURSIVE Split(_, _)
Split(s, sep) ==
    LET i == Find(s, sep)
    IN IF i < 0 THEN <<s>>
       ELSE <<Upto(s, i)>> \o Split(From(s, i + Len(sep)), sep)

UpperCase == "ABCDEFGHIJKLMNOPQRSTUVWXYZ"
LowerCase == "abcdefghijklmnopqrstuvwxyz"

LowerChar(c) ==
    IF CharIn(c, UpperCase)
    THEN Char(LowerCase, CHOOSE i \in 1..Len(UpperCase) : Char(UpperCase, i) = c)
    ELSE c

\* s.lower()
RECURSIVE Lower(_)
Lower(s) ==
    IF s = "" THEN "" ELSE LowerChar(Char(s, 1)) \o Lower(From(s, 1))

UpperChar(c) ==
    IF CharIn(c, LowerCase)
    THEN Char(UpperCase, CHOOSE i \in 1..Len(LowerCase) : Char(LowerCase, i) = c)
    ELSE c

\* s.upper()
RECURSIVE Upper(_)
Upper(s) ==
    IF s = "" THEN "" ELSE UpperChar(Char(s, 1)) \o Upper(From(s, 1))

\* s.ljust(width)
RECURSIVE ljust(_, _)
ljust(s, width) == IF Len(s) >= width THEN s ELSE ljust(s \o " ", width)

\* the printable ASCII characters in code point order (the grave accent,
\* which a string of this notation cannot hold, left out)
Ascii ==
    " !\"#$%&'()*+,-./0123456789:;<=>?@ABCDEFGHIJKLMNOPQRSTUVWXYZ[\\]^_abcdefghijklmnopqrstuvwxyz{|}~"

Ord(c) == CHOOSE i \in 1..Len(Ascii) : Char(Ascii, i) = c

\* a < b, for strings
RECURSIVE StrLess(_, _)
StrLess(a, b) ==
    IF b = "" THEN FALSE
    ELSE IF a = "" THEN TRUE
    ELSE IF Char(a, 1) = Char(b, 1) THEN StrLess(From(a, 1), From(b, 1))
    ELSE Ord(Char(a, 1)) < Ord(Char(b, 1))

Digits == "0123456789"

DigitValue(c) == (CHOOSE i \in 1..Len(Digits) : Char(Digits, i) = c) - 1

\* str(n), for an int n
RECURSIVE str_of_int(_)
str_of_int(n) ==
    IF n < 0 THEN "-" \o str_of_int(0 - n)
    ELSE IF n < 10 THEN Char(Digits, n + 1)
    ELSE str_of_int(n \div 10) \o Char(Digits, (n % 10) + 1)

\* x in t, for a tuple t
InTuple(x, t) == \E i \in 1..Len(t) : t[i] = x

\* the member of a set of one value.  Value({F(v) : v \in {e}}) is F of
\* the value of e: a call is made once and its result is then read
Value(S) == CHOOSE r \in S : TRUE

---------------------------------------------------------------------------
(* jockey/juju_types.py and the filter grammar of jockey/utils.py          *)

ObjectType == <<
    [name |-> "CHARM",    value |-> <<"charms", "charm", "c">>],
    [name |-> "APP",      value |-> <<"app", "apps", "application", "applications", "a">>],
    [name |-> "UNIT",     value |-> <<"units", "unit", "u">>],
    [name |-> "MACHINE",  value |-> <<"machines", "machine", "m">>],
    [name |-> "IP",       value |-> <<"address", "addresses", "ips", "ip", "i">>],
    [name |-> "HOSTNAME", value |-> <<"hostnames", "hostname", "host", "hosts", "h">>] >>

FilterMode == <<
    [name |-> "EQUALS",       value |-> "="],
    [name |-> "CONTAINS",     value |-> "~"],
    [name |-> "NOT_EQUALS",   value |-> "^="],
    [name |-> "NOT_CONTAINS", value |-> "^~"] >>

\* next((m for m in members if ...), None), by member name: hits is the set
\* of the positions of the members that pass the test
FirstMember(members, hits) ==
    IF hits = {} THEN "None"
    ELSE members[CHOOSE i \in hits : \A j \in hits : i <= j].name

\* convert_object_abbreviation without the abbrev.lower() of line 54
convert_object_abbreviation_as_written(abbrev) ==
    FirstMember(ObjectType,
                {i \in 1..Len(ObjectType) : InTuple(abbrev, ObjectType[i].value)})

convert_object_abbreviation(abbrev) ==
    FirstMember(ObjectType,
                {i \in 1..Len(ObjectType) :
                   InTuple(Lower(abbrev), ObjectType[i].value)})

\* the characters of the pattern [=^~]+
filter_code_chars == "=^~"

\* the end (0-based, exclusive) of the run of pattern characters starting at i
RECURSIVE RunEnd(_, _, _)
RunEnd(s, chars, i) ==
    IF i < Len(s) /\ CharIn(Char(s, i + 1), chars)
    THEN RunEnd(s, chars, i + 1) ELSE i

\* the matches of chars+ in s from offset i on, as [start, end, group]
RECURSIVE Matches(_, _, _)
Matches(s, chars, i) ==
    IF i >= Len(s) THEN <<>>
    ELSE IF CharIn(Char(s, i + 1), chars)
         THEN LET e == RunEnd(s, chars, i)
              IN <<[start |-> i, end |-> e, group |-> SubSeq(s, i + 1, e)]>>
                 \o Matches(s, chars, e)
         ELSE Matches(s, chars, i + 1)

\* filter_code_pattern.findall(filter_str)
filter_code_findall(filter_str) == Matches(filter_str, filter_code_chars, 0)

\* filter_code_pattern.search(filter_str), where findall found a match
filter_code_search(filter_str) == filter_code_findall(filter_str)[1]

char_blacklist == <<"_", ":", ";", "\\", "\t", "\n", ",">>

JockeyFilter(obj_type, mode, content) ==
    [exc |-> "none", obj_type |-> obj_type, mode |-> mode, content |-> content]

AssertionError(msg) ==
    [exc |-> "AssertionError", obj_type |-> "None", mode |-> "None", content |-> msg]

\* find_filter_mode with `mode.value in code` for `mode.value == code`
find_filter_mode_by_containment(code) ==
    FirstMember(FilterMode,
                {i \in 1..Len(FilterMode) : Contains(FilterMode[i].value, code)})

\* next((mode for mode in FilterMode if mode.value == code), None)
find_filter_mode(code) ==
    FirstMember(FilterMode,
                {i \in 1..Len(FilterMode) : FilterMode[i].value = code})

parse_filter_string(filter_str) ==
    LET filter_codes == filter_code_findall(filter_str)
    IN IF Len(filter_codes) # 1
       THEN AssertionError("Incorrect number of filter codes detected.")
       ELSE
       LET match == filter_code_search(filter_str)
           object_type == convert_object_abbreviation(Upto(filter_str, match.start))
           filter_mode == find_filter_mode(match.group)
           content == From(filter_str, match.end)
       IN IF object_type = "None"
          THEN AssertionError("Invalid object type detected in filter string.")
          ELSE IF filter_mode = "None"
          THEN AssertionError("Invalid filter mode detected: " \o match.group \o ".")
          ELSE IF content = ""
          THEN AssertionError("Empty content detected in filter string.")
          ELSE IF \E i \in 1..Len(content) : InTuple(Char(content, i), char_blacklist)
          THEN AssertionError("Blacklisted characters detected in filter string content.")
          ELSE JockeyFilter(object_type, filter_mode, content)

---------------------------------------------------------------------------
(* jockey/filters.py                                                       *)

ALL_FILTERS_unsorted == <<
    <<"==", "equals_filter">>,
    <<"=",  "equals_filter">>,
    <<"!=", "not_equals_filter">>,
    <<"^=", "not_equals_filter">>,
    <<"=~", "regex_filter">>,
    <<"~=", "regex_filter">>,
    <<"!~", "not_regex_filter">>,
    <<"^~", "not_regex_filter">>,
    <<">",  "greater_than_filter">>,
    <<">=", "greater_than_or_equals_filter">>,
    <<"<",  "less_than_filter">>,
    <<"<=", "less_than_or_equals_filter">> >>

\* insert x after every element of the sorted list whose key is >= x's
RECURSIVE InsertByLen(_, _)
InsertByLen(sorted, x) ==
    IF sorted = <<>> THEN <<x>>
    ELSE IF Len(Head(sorted)[1]) >= Len(x[1])
         THEN <<Head(sorted)>> \o InsertByLen(Tail(sorted), x)
         ELSE <<x>> \o sorted

\* sorted(seq, key=(lambda x: len(x[0])), reverse=True): stable
RECURSIVE SortedByLenDesc(_)
SortedByLenDesc(seq) ==
    IF seq = <<>> THEN <<>>
    ELSE InsertByLen(SortedByLenDesc(SubSeq(seq, 1, Len(seq) - 1)), seq[Len(seq)])

\* ALL_FILTERS without the sort of line 56
ALL_FILTERS_in_table_order == ALL_FILTERS_unsorted

ALL_FILTERS == SortedByLenDesc(ALL_FILTERS_unsorted)

CliFilter(field, query, func) ==
    [exc |-> "none", field |-> field, query |-> query, func |-> func]

ValueError(msg) ==
    [exc |-> "ValueError", field |-> "", query |-> "", func |-> msg]

\* __main__.py, filters_help: "Supported operators: = != ~." and the examples
\* "app==nova-compute hostname~ubun"
filters_help_operators == <<"=", "!=", "~">>
filters_help_examples == <<"app==nova-compute", "hostname~ubun">>

\* the loop of parse_filter over table[i..]
RECURSIVE parse_filter_from(_, _, _)
parse_filter_from(table, i, filter_str) ==
    IF i > Len(table) THEN ValueError("Invalid filter")
    ELSE LET operator == table[i][1]
             filter_func == table[i][2]
         IN IF Contains(operator, filter_str)
            THEN LET parts == Split(filter_str, operator)
                 IN IF Len(parts) # 2
                    THEN ValueError("unpack")
                    ELSE CliFilter(parts[1], parts[2], filter_func)
            ELSE parse_filter_from(table, i + 1, filter_str)

parse_filter(filter_str) == parse_filter_from(ALL_FILTERS, 1, filter_str)

---------------------------------------------------------------------------
(* Python values and mappings.                                             *)

\* a value of type Optional[str]
Str(s) == [t |-> "str", s |-> s]
None == [t |-> "None", s |-> ""]

\* the outcome of a call: a returned value, or the exception it raised
Return(val) == [exc |-> "none", val |-> val]
Raise(exc) == [exc |-> exc, val |-> None]

\* key in mapping
HasEntry(mapping, key) == \E i \in 1..Len(mapping) : mapping[i].name = key

\* mapping[key], where key in mapping
Entry(mapping, key) == mapping[CHOOSE i \in 1..Len(mapping) : mapping[i].name = key]

\* list(mapping): the keys in insertion order
Names(mapping) == [i \in 1..Len(mapping) |-> mapping[i].name]

\* x in seq
InSequence(x, seq) == \E i \in 1..Len(seq) : seq[i] = x

\* status["applications"][app_name], for an app_name that may be None
HasApp(st, app_name) ==
    app_name.t = "str" /\ HasEntry(st.applications, app_name.s)

---------------------------------------------------------------------------
(* jockey/utils.py: the relationship resolver                              *)

check_filter_match(jockey_filter, value) ==
    LET c == jockey_filter.content
    IN CASE jockey_filter.mode = "EQUALS" ->
              Return(value.t = "str" /\ c = value.s)
         [] jockey_filter.mode = "NOT_EQUALS" ->
              Return(~(value.t = "str" /\ c = value.s))
         [] jockey_filter.mode = "CONTAINS" ->
              IF value.t = "None" THEN Raise("TypeError")
              ELSE Return(Contains(c, value.s))
         [] jockey_filter.mode = "NOT_CONTAINS" ->
              IF value.t = "None" THEN Raise("TypeError")
              ELSE Return(~Contains(c, value.s))

is_app_principal(st, app_name) ==
    IF ~HasApp(st, app_name) THEN Raise("KeyError")
    ELSE Return("subordinate-to" \notin Entry(st.applications, app_name.s).keys)

application_to_charm(st, app_name) ==
    IF HasApp(st, app_name) /\ "charm" \in Entry(st.applications, app_name.s).keys
    THEN Return(Str(Entry(st.applications, app_name.s).charm))
    ELSE Return(None)

unit_to_application(st, unit_name) ==
    IF unit_name.t = "None" THEN Raise("AttributeError")
    ELSE LET Found(app_name) ==
                 IF HasEntry(st.applications, app_name)
                 THEN Return(Str(app_name)) ELSE Return(None)
         IN Value({Found(v) : v \in {Split(unit_name.s, "/")[1]}})

\* for p_unit in units[j..]: if unit_name in units[p_unit]["subordinates"]
RECURSIVE scan_principal_units(_, _, _)
scan_principal_units(units, j, unit_name) ==
    IF j > Len(units) THEN Return(None)
    ELSE IF "subordinates" \notin units[j].keys THEN Raise("KeyError")
    ELSE IF HasEntry(units[j].subordinates, unit_name)
         THEN Return(Str(units[j].name))
         ELSE scan_principal_units(units, j + 1, unit_name)

\* for p_app in p_apps[i..]
RECURSIVE scan_principal_apps(_, _, _, _)
scan_principal_apps(st, p_apps, i, unit_name) ==
    IF i > Len(p_apps) THEN Return(None)
    ELSE
    LET Units(found) ==
            IF found.exc # "none" \/ found.val.t = "str" THEN found
            ELSE scan_principal_apps(st, p_apps, i + 1, unit_name)
        App(principal) ==
            IF principal.exc # "none" THEN Raise(principal.exc)
            ELSE IF ~principal.val
            THEN scan_principal_apps(st, p_apps, i + 1, unit_name)
            ELSE IF "units" \notin Entry(st.applications, p_apps[i]).keys
            THEN Raise("KeyError")
            ELSE Value({Units(v) : v \in
                          {scan_principal_units(
                               Entry(st.applications, p_apps[i]).units, 1,
                               unit_name)}})
    IN Value({App(v) : v \in {is_app_principal(st, Str(p_apps[i]))}})

subordinate_unit_to_principal_unit(st, unit_name) ==
    LET Scan(app) ==
            LET Principal(principal) ==
                    IF principal.exc # "none" THEN Raise(principal.exc)
                    ELSE IF principal.val THEN Return(Str(unit_name))
                    ELSE scan_principal_apps(
                             st, Entry(st.applications, app.val.s).subordinate_to,
                             1, unit_name)
            IN Value({Principal(v) : v \in {is_app_principal(st, app.val)}})
    IN Value({Scan(v) : v \in {unit_to_application(st, Str(unit_name))}})

unit_to_machine(st, unit_name) ==
    LET Machine(principal_unit_name, app) ==
            IF app.exc # "none" THEN Raise(app.exc)
            ELSE IF ~HasApp(st, app.val) THEN Raise("KeyError")
            ELSE
            LET Units(a) ==
                    IF "units" \notin a.keys
                       \/ ~HasEntry(a.units, principal_unit_name.s)
                    THEN Raise("KeyError")
                    ELSE IF "machine" \notin Entry(a.units, principal_unit_name.s).keys
                    THEN Raise("KeyError")
                    ELSE Return(Str(Entry(a.units, principal_unit_name.s).machine))
            IN Value({Units(v) : v \in {Entry(st.applications, app.val.s)}})
        Principal(principal_unit_name) ==
            IF principal_unit_name.exc # "none" THEN Raise(principal_unit_name.exc)
            ELSE LET App(app) == Machine(principal_unit_name.val, app)
                 IN Value({App(v) : v \in
                               {unit_to_application(st, principal_unit_name.val)}})
    IN Value({Principal(v) : v \in
                  {subordinate_unit_to_principal_unit(st, unit_name)}})

\* the ip-addresses the generator machine_to_ips yields once it is started
machine_to_ips(st, machine) ==
    IF ~HasEntry(st.machines, machine) THEN Raise("KeyError")
    ELSE IF "ip-addresses" \notin Entry(st.machines, machine).keys
    THEN Raise("KeyError")
    ELSE Return(Entry(st.machines, machine).ip_addresses)

machine_to_hostname(st, machine) ==
    IF Contains("lxd", machine)
    THEN LET Container(parts) ==
                 IF Len(parts) # 3 THEN Raise("ValueError")
                 ELSE IF ~HasEntry(st.machines, parts[1]) THEN Raise("KeyError")
                 ELSE
                 LET Physical(physical) ==
                         IF "containers" \notin physical.keys
                            \/ ~HasEntry(physical.containers, machine)
                         THEN Raise("KeyError")
                         ELSE IF "hostname"
                                   \notin Entry(physical.containers, machine).keys
                         THEN Raise("KeyError")
                         ELSE Return(Str(Entry(physical.containers, machine).hostname))
                 IN Value({Physical(v) : v \in {Entry(st.machines, parts[1])}})
         IN Value({Container(v) : v \in {Split(machine, "/")}})
    ELSE IF ~HasEntry(st.machines, machine) THEN Raise("KeyError")
    ELSE IF "hostname" \notin Entry(st.machines, machine).keys THEN Raise("KeyError")
    ELSE Return(Str(Entry(st.machines, machine).hostname))

\* the loop of ip_to_machine over the machines i..
RECURSIVE ip_to_machine_from(_, _, _)
ip_to_machine_from(st, i, ip) ==
    IF i > Len(st.machines) THEN Return(None)
    ELSE IF "ip-addresses" \notin st.machines[i].keys THEN Raise("KeyError")
    ELSE IF InSequence(ip, st.machines[i].ip_addresses)
         THEN Return(Str(st.machines[i].name))
         ELSE ip_to_machine_from(st, i + 1, ip)

ip_to_machine(st, ip) == ip_to_machine_from(st, 1, ip)

\* the loop of hostname_to_machine over get_machines(status), from i on
RECURSIVE hostname_to_machine_from(_, _, _)
hostname_to_machine_from(st, i, hostname) ==
    IF i > Len(st.machines) THEN Return(None)
    ELSE IF "hostname" \notin st.machines[i].keys THEN Raise("KeyError")
    ELSE IF st.machines[i].hostname = hostname
         THEN Return(Str(st.machines[i].name))
         ELSE hostname_to_machine_from(st, i + 1, hostname)

hostname_to_machine(st, hostname) == hostname_to_machine_from(st, 1, hostname)

---------------------------------------------------------------------------
(* jockey/utils.py: the query engine.  A generator is what it yielded,     *)
(* in order, and the exception that ended it ("none" when it returned).    *)

Generated(units, exc) == [units |-> units, exc |-> exc]

\* the names one application's units mapping yields: each unit, then its
\* subordinates when it has the key
RECURSIVE units_with_subordinates(_, _)
units_with_subordinates(units, j) ==
    IF j > Len(units) THEN <<>>
    ELSE <<units[j].name>>
         \o (IF "subordinates" \in units[j].keys
             THEN Names(units[j].subordinates) ELSE <<>>)
         \o units_with_subordinates(units, j + 1)

\* the loop of get_units over the applications i.., after it yielded `units`
RECURSIVE get_units_from(_, _, _)
get_units_from(st, i, units) ==
    IF i > Len(st.applications) THEN Generated(units, "none")
    ELSE IF ~is_app_principal(st, Str(st.applications[i].name)).val
         THEN get_units_from(st, i + 1, units)
         ELSE IF "units" \notin st.applications[i].keys
         THEN Generated(units, "KeyError")
         ELSE get_units_from(
                  st, i + 1,
                  units \o units_with_subordinates(st.applications[i].units, 1))

get_units(st) == get_units_from(st, 1, <<>>)

\* [f for f in filters if f.obj_type == obj_type]
RECURSIVE filters_of_type(_, _)
filters_of_type(fs, obj_type) ==
    IF fs = <<>> THEN <<>>
    ELSE (IF Head(fs).obj_type = obj_type THEN <<Head(fs)>> ELSE <<>>)
         \o filters_of_type(Tail(fs), obj_type)

\* all(check_filter_match(f, value) for f in fs): stops at the first False,
\* and at the first exception
RECURSIVE all_match(_, _)
all_match(fs, value) ==
    IF fs = <<>> THEN Return(TRUE)
    ELSE LET Matched(m) ==
                 IF m.exc # "none" THEN m
                 ELSE IF ~m.val THEN Return(FALSE)
                 ELSE all_match(Tail(fs), value)
         IN Value({Matched(v) : v \in {check_filter_match(Head(fs), value)}})

\* any(check_filter_match(i_filter, ip) for ip in ips) on the generator ips:
\* whether it matched, and what is left of the generator
RECURSIVE any_ip_match(_, _)
any_ip_match(i_filter, ips) ==
    IF ips = <<>> THEN [val |-> FALSE, ips |-> <<>>]
    ELSE IF check_filter_match(i_filter, Str(Head(ips))).val
         THEN [val |-> TRUE, ips |-> Tail(ips)]
         ELSE any_ip_match(i_filter, Tail(ips))

\* all(any(... for ip in ips) for i_filter in ip_filters): every ip filter
\* reads the one generator ips
RECURSIVE all_ip_filters_match(_, _)
all_ip_filters_match(ip_filters, ips) ==
    IF ip_filters = <<>> THEN TRUE
    ELSE LET Matched(m) ==
                 IF ~m.val THEN FALSE
                 ELSE all_ip_filters_match(Tail(ip_filters), m.ips)
         IN Value({Matched(v) : v \in {any_ip_match(Head(ip_filters), ips)}})

\* lines 603-617: "pass", "continue" or the exception raised
check_app_and_charm(st, app_filters, charm_filters, unit) ==
    IF app_filters = <<>> /\ charm_filters = <<>> THEN "pass"
    ELSE
    LET Charm(c) ==
            IF c.exc # "none" THEN c.exc
            ELSE IF ~c.val THEN "continue" ELSE "pass"
        App(app) ==
            LET Matched(a) ==
                    IF a.exc # "none" THEN a.exc
                    ELSE IF ~a.val THEN "continue"
                    ELSE Value({Charm(v) : v \in
                                  {all_match(charm_filters,
                                             application_to_charm(st, app.val).val)}})
            IN Value({Matched(v) : v \in {all_match(app_filters, app.val)}})
    IN Value({App(v) : v \in {unit_to_application(st, Str(unit))}})

\* lines 641-649: "yield", "continue" or the exception raised
check_ips(st, ip_filters, machine) ==
    IF ip_filters = <<>> THEN "yield"
    ELSE LET Ips(ips) ==
                 IF ips.exc # "none" THEN ips.exc
                 ELSE IF all_ip_filters_match(ip_filters, ips.val)
                      THEN "yield" ELSE "continue"
         IN Value({Ips(v) : v \in {machine_to_ips(st, machine)}})

\* lines 619-649: "yield", "continue" or the exception raised
check_machine(st, machine_filters, hostname_filters, ip_filters, unit) ==
    IF machine_filters = <<>> /\ ip_filters = <<>> /\ hostname_filters = <<>>
    THEN "yield"
    ELSE
    LET Machine(machine) ==
            IF machine.exc # "none" THEN machine.exc
            ELSE IF ~all_match(machine_filters, machine.val).val THEN "continue"
            ELSE
            LET Hostname(hostname) ==
                    IF hostname.exc # "none" THEN hostname.exc
                    ELSE IF ~all_match(hostname_filters, hostname.val).val
                    THEN "continue"
                    ELSE check_ips(st, ip_filters, machine.val.s)
            IN Value({Hostname(v) : v \in {machine_to_hostname(st, machine.val.s)}})
    IN Value({Machine(v) : v \in {unit_to_machine(st, unit)}})

\* one pass of the loop body of filter_units
filter_unit(st, fs, unit) ==
    IF ~all_match(filters_of_type(fs, "UNIT"), Str(unit)).val THEN "continue"
    ELSE LET Joined(joined) ==
                 IF joined # "pass" THEN joined
                 ELSE check_machine(st,
                                    filters_of_type(fs, "MACHINE"),
                                    filters_of_type(fs, "HOSTNAME"),
                                    filters_of_type(fs, "IP"),
                                    unit)
         IN Value({Joined(v) : v \in
                       {check_app_and_charm(st,
                                            filters_of_type(fs, "APP"),
                                            filters_of_type(fs, "CHARM"),
                                            unit)}})

\* the loop of filter_units over the candidates i.., after it yielded
\* `units`, the generator of the candidates ending with candidates_exc
RECURSIVE filter_units_from(_, _, _, _, _, _)
filter_units_from(st, fs, candidates, candidates_exc, i, units) ==
    IF i > Len(candidates) THEN Generated(units, candidates_exc)
    ELSE LET Step(step) ==
                 CASE step = "yield" ->
                        filter_units_from(st, fs, candidates, candidates_exc, i + 1,
                                          Append(units, candidates[i]))
                   [] step = "continue" ->
                        filter_units_from(st, fs, candidates, candidates_exc, i + 1,
                                          units)
                   [] OTHER -> Generated(units, step)
         IN Value({Step(v) : v \in {filter_unit(st, fs, candidates[i])}})

filter_units(st, fs) ==
    LET Candidates(candidates) ==
            filter_units_from(st, fs, candidates.units, candidates.exc, 1, <<>>)
    IN Value({Candidates(v) : v \in {get_units(st)}})

---------------------------------------------------------------------------
(* jockey/collectors.py: the entity model                                  *)

\* Machine(machine=..., hostname=..., base=..., hardware=...) of one entry
machine_entity(m) ==
    IF "hostname" \notin m.keys THEN Raise("KeyError")
    ELSE IF "series" \notin m.keys /\ "base" \notin m.keys THEN Raise("KeyError")
    ELSE IF "hardware" \notin m.keys THEN Raise("KeyError")
    ELSE Return([machine |-> m.name,
                 hostname |-> m.hostname,
                 base |-> IF "series" \in m.keys THEN m.series
                          ELSE m.base.name \o ":" \o m.base.channel,
                 hardware |-> m.hardware])

\* the entities of entries[j..], none of which has containers, after `acc`
RECURSIVE container_entities(_, _, _)
container_entities(entries, j, acc) ==
    IF j > Len(entries) THEN Return(acc)
    ELSE LET c == machine_entity(entries[j])
         IN IF c.exc # "none" THEN c
            ELSE container_entities(entries, j + 1, Append(acc, c.val))

\* the loop of collectors.get_machines over the machines i.., after `acc`
RECURSIVE collect_machines_from(_, _, _)
collect_machines_from(machines, i, acc) ==
    IF i > Len(machines) THEN Return(acc)
    ELSE LET m == machine_entity(machines[i])
         IN IF m.exc # "none" THEN m
            ELSE LET inner == IF "containers" \in machines[i].keys
                              THEN container_entities(machines[i].containers, 1,
                                                      Append(acc, m.val))
                              ELSE Return(Append(acc, m.val))
                 IN IF inner.exc # "none" THEN inner
                    ELSE collect_machines_from(machines, i + 1, inner.val)

collectors_get_machines(st) ==
    IF "machines" \in st.keys THEN collect_machines_from(st.machines, 1, <<>>)
    ELSE Return(<<>>)

\* the list comprehension of collectors.get_applications over apps[i..]
RECURSIVE collect_applications_from(_, _, _)
collect_applications_from(apps, i, acc) ==
    IF i > Len(apps) THEN Return(acc)
    ELSE IF ~({"charm-name", "charm-rev"} \subseteq apps[i].keys) THEN Raise("KeyError")
    ELSE collect_applications_from(
             apps, i + 1,
             Append(acc, [app |-> apps[i].name,
                          charm |-> apps[i].charm_name,
                          charm_rev |-> apps[i].charm_rev]))

collectors_get_applications(st) ==
    IF "applications" \notin st.keys THEN Raise("KeyError")
    ELSE collect_applications_from(st.applications, 1, <<>>)

\* m_map[machine_id].hostname: the last machine of the list with that id
m_map_hostname(machines, machine_id) ==
    LET hits == {i \in 1..Len(machines) : machines[i].machine = machine_id}
    IN IF hits = {} THEN Raise("KeyError")
       ELSE Return(machines[CHOOSE i \in hits : \A j \in hits : j <= i].hostname)

status_keys == {"workload-status", "juju-status", "public-address"}

\* Unit(...) for the principal unit u of application a
principal_unit_entity(machines, a, u) ==
    IF "machine" \notin u.keys THEN Raise("KeyError")
    ELSE LET hostname == m_map_hostname(machines, u.machine)
         IN IF hostname.exc # "none" THEN hostname
            ELSE IF "charm" \notin a.keys THEN Raise("KeyError")
            ELSE IF ~(status_keys \subseteq u.keys) THEN Raise("KeyError")
            ELSE Return([unit |-> u.name,
                         machine |-> u.machine,
                         hostname |-> hostname.val,
                         app |-> a.name,
                         charm |-> a.charm,
                         workload |-> u.workload,
                         agent |-> u.agent,
                         ip |-> u.public_address,
                         leader |-> IF "leader" \in u.keys THEN u.leader ELSE FALSE,
                         subordinate |-> FALSE,
                         subordinate_to |-> None])

\* Unit(...) for the subordinate s of the principal unit u
subordinate_unit_entity(st, machines, u, s) ==
    LET parts == Split(s.name, "/")
    IN IF Len(parts) # 2 THEN Raise("ValueError")
       ELSE LET hostname == m_map_hostname(machines, u.machine)
            IN IF hostname.exc # "none" THEN hostname
               ELSE IF ~HasEntry(st.applications, parts[1]) THEN Raise("KeyError")
               ELSE IF "charm-name" \notin Entry(st.applications, parts[1]).keys
               THEN Raise("KeyError")
               ELSE IF ~(status_keys \subseteq s.keys) THEN Raise("KeyError")
               ELSE Return([unit |-> s.name,
                            machine |-> u.machine,
                            hostname |-> hostname.val,
                            app |-> parts[1],
                            charm |-> Entry(st.applications, parts[1]).charm_name,
                            workload |-> s.workload,
                            agent |-> s.agent,
                            ip |-> s.public_address,
                            leader |-> IF "leader" \in s.keys THEN s.leader ELSE FALSE,
                            subordinate |-> TRUE,
                            subordinate_to |-> Str(u.name)])

\* the inner loop of collectors.get_units over the subordinates k.. of u
RECURSIVE collect_subordinates_from(_, _, _, _, _)
collect_subordinates_from(st, machines, u, k, acc) ==
    IF "subordinates" \notin u.keys \/ k > Len(u.subordinates) THEN Return(acc)
    ELSE LET s == subordinate_unit_entity(st, machines, u, u.subordinates[k])
         IN IF s.exc # "none" THEN s
            ELSE collect_subordinates_from(st, machines, u, k + 1, Append(acc, s.val))

\* the loop of collectors.get_units over the units j.. of application a
RECURSIVE collect_units_from(_, _, _, _, _)
collect_units_from(st, machines, a, j, acc) ==
    IF "units" \notin a.keys \/ j > Len(a.units) THEN Return(acc)
    ELSE LET u == principal_unit_entity(machines, a, a.units[j])
         IN IF u.exc # "none" THEN u
            ELSE LET subs == collect_subordinates_from(st, machines, a.units[j], 1,
                                                       Append(acc, u.val))
                 IN IF subs.exc # "none" THEN subs
                    ELSE collect_units_from(st, machines, a, j + 1, subs.val)

\* the loop of collectors.get_units over the applications i..
RECURSIVE collect_apps_from(_, _, _, _)
collect_apps_from(st, machines, i, acc) ==
    IF i > Len(st.applications) THEN Return(acc)
    ELSE LET units == collect_units_from(st, machines, st.applications[i], 1, acc)
         IN IF units.exc # "none" THEN units
            ELSE collect_apps_from(st, machines, i + 1, units.val)

collectors_get_units(st) ==
    LET machines == collectors_get_machines(st)
    IN IF machines.exc # "none" THEN machines
       ELSE IF "applications" \notin st.keys THEN Return(<<>>)
       ELSE collect_apps_from(st, machines.val, 1, <<>>)

---------------------------------------------------------------------------
(* jockey/juju_types.py: the entity classes, and jockey/filters.py: the    *)
(* filter a parsed filter string stands for.                               *)

\* __annotations__ of the dataclasses, in declaration order
Annotations(class) ==
    CASE class = "Application" ->
           << <<"app", "str">>, <<"charm", "str">>, <<"charm_rev", "int">> >>
      [] class = "Machine" ->
           << <<"machine", "str">>, <<"hostname", "str">>, <<"base", "str">>,
              <<"hardware", "str">> >>
      [] class = "Unit" ->
           << <<"unit", "str">>, <<"machine", "str">>, <<"hostname", "str">>,
              <<"app", "str">>, <<"charm", "str">>, <<"workload", "str">>,
              <<"agent", "str">>, <<"ip", "str">>, <<"leader", "bool">>,
              <<"subordinate", "bool">>, <<"subordinate_to", "Optional[str]">> >>

\* list(__annotations__.keys())
annotation_keys(class) ==
    [i \in 1..Len(Annotations(class)) |-> Annotations(class)[i][1]]

\* __annotations__.get(field), "None" when the class has no such field
annotation(class, field) ==
    LET hits == {i \in 1..Len(Annotations(class)) : Annotations(class)[i][1] = field}
    IN IF hits = {} THEN "None" ELSE Annotations(class)[CHOOSE i \in hits : TRUE][2]

whitespace == <<" ", "\t", "\n", "\r", "\f">>

\* s.strip()
RECURSIVE strip(_)
strip(s) ==
    IF s = "" THEN ""
    ELSE IF InTuple(Char(s, 1), whitespace) THEN strip(From(s, 1))
    ELSE IF InTuple(Char(s, Len(s)), whitespace) THEN strip(Upto(s, Len(s) - 1))
    ELSE s

\* s is digits, with single underscores between them
IsDecimal(s) ==
    /\ s # ""
    /\ CharIn(Char(s, 1), Digits)
    /\ CharIn(Char(s, Len(s)), Digits)
    /\ \A i \in 1..Len(s) :
          \/ CharIn(Char(s, i), Digits)
          \/ Char(s, i) = "_" /\ Char(s, i + 1) # "_"

\* the number the digits of s denote, after the digits that denote acc
RECURSIVE decimal_value(_, _)
decimal_value(s, acc) ==
    IF s = "" THEN acc
    ELSE IF Char(s, 1) = "_" THEN decimal_value(From(s, 1), acc)
    ELSE decimal_value(From(s, 1), 10 * acc + DigitValue(Char(s, 1)))

\* int(query)
int(query) ==
    LET literal == strip(query)
        signed == literal # "" /\ CharIn(Char(literal, 1), "+-")
        body == IF signed THEN From(literal, 1) ELSE literal
    IN IF ~IsDecimal(body) THEN Raise("ValueError")
       ELSE IF signed /\ Char(literal, 1) = "-"
            THEN Return(0 - decimal_value(body, 0))
            ELSE Return(decimal_value(body, 0))

parse_bool(value) == InTuple(Lower(value), <<"true", "t", "yes", "y", "1">>)

\* get_field_parser(field_type)(query)
parse_query(field_type, query) ==
    CASE field_type = "str" -> Return(query)
      [] field_type = "int" -> int(query)
      [] field_type = "bool" -> Return(parse_bool(query))
      [] OTHER -> Raise("TypeError")

\* re.search(pattern, value) is not None, for a pattern made of literal
\* characters and of ".", which are the patterns of FilterPool
re_search(pattern, value) ==
    \E i \in 0..(Len(value) - Len(pattern)) :
        \A k \in 1..Len(pattern) :
            \/ Char(pattern, k) = "." /\ Char(value, i + k) # "\n"
            \/ Char(pattern, k) = Char(value, i + k)

\* a < b, for two values of the type
less_than(field_type, a, b) ==
    CASE field_type = "str" -> StrLess(a, b)
      [] field_type = "int" -> a < b
      [] field_type = "bool" -> ~a /\ b

\* filter_func(value, qval), for a value and a qval of the type
apply_filter_func(func, field_type, value, qval) ==
    CASE func = "equals_filter" -> Return(value = qval)
      [] func = "not_equals_filter" -> Return(value # qval)
      [] func = "regex_filter" ->
           IF field_type = "str" THEN Return(re_search(qval, value))
           ELSE Raise("TypeError")
      [] func = "not_regex_filter" ->
           IF field_type = "str" THEN Return(~re_search(qval, value))
           ELSE Raise("TypeError")
      [] func = "greater_than_filter" ->
           Return(less_than(field_type, qval, value))
      [] func = "greater_than_or_equals_filter" ->
           Return(~less_than(field_type, value, qval))
      [] func = "less_than_filter" ->
           Return(less_than(field_type, value, qval))
      [] func = "less_than_or_equals_filter" ->
           Return(~less_than(field_type, qval, value))

\* _filter(obj), for the filter f that parse_filter returned and an obj of
\* the class
apply_filter(class, f, obj) ==
    LET Parsed(qval) ==
            IF qval.exc # "none" THEN Raise(qval.exc)
            ELSE apply_filter_func(f.func, annotation(class, f.field),
                                   obj[f.field], qval.val)
    IN Value({Parsed(v) : v \in {parse_query(annotation(class, f.field), f.query)}})

\* all([f(obj) for f in fs[i..]]), acc telling whether all of fs[..i-1] hold
RECURSIVE all_filters_hold(_, _, _, _, _)
all_filters_hold(class, fs, i, obj, acc) ==
    IF i > Len(fs) THEN Return(acc)
    ELSE LET Held(held) ==
                 IF held.exc # "none" THEN Raise(held.exc)
                 ELSE all_filters_hold(class, fs, i + 1, obj, acc /\ held.val)
         IN Value({Held(v) : v \in {apply_filter(class, fs[i], obj)}})

\* main, line 37: the list comprehension over objs[j..], after acc
RECURSIVE filter_objects(_, _, _, _, _)
filter_objects(class, fs, objs, j, acc) ==
    IF j > Len(objs) THEN Return(acc)
    ELSE LET Kept(kept) ==
                 IF kept.exc # "none" THEN Raise(kept.exc)
                 ELSE filter_objects(class, fs, objs, j + 1,
                                     IF kept.val THEN Append(acc, objs[j]) ELSE acc)
         IN Value({Kept(v) : v \in {all_filters_hold(class, fs, 1, objs[j], TRUE)}})

---------------------------------------------------------------------------
(* jockey/utils.py: print_table.  The output is the lines printed, in      *)
(* order, and the exception that ended the printing ("none" when it        *)
(* returned).                                                              *)

Printed(lines, exc) == [lines |-> lines, exc |-> exc]

\* str(getattr(obj, col)), for a field col of the class
str_of_field(class, obj, col) ==
    CASE annotation(class, col) = "str" -> obj[col]
      [] annotation(class, col) = "int" -> str_of_int(obj[col])
      [] annotation(class, col) = "bool" -> IF obj[col] THEN "True" ELSE "False"
      [] annotation(class, col) = "Optional[str]" ->
           IF obj[col] = None THEN "None" ELSE obj[col].s

\* col_lens[col] after the loop of lines 11-15 over objs[j..]
RECURSIVE col_len(_, _, _, _, _)
col_len(class, objs, col, j, acc) ==
    IF j > Len(objs) THEN acc
    ELSE LET width == Len(str_of_field(class, objs[j], col))
         IN col_len(class, objs, col, j + 1, IF width > acc THEN width ELSE acc)

\* one printed line: each of cells[k..] left-justified to the length of its
\* column plus 2
RECURSIVE table_line(_, _, _)
table_line(cells, col_lens, k) ==
    IF k > Len(cells) THEN ""
    ELSE ljust(cells[k], col_lens[k] + 2) \o table_line(cells, col_lens, k + 1)

print_table(class, objs, columns) ==
    IF objs # <<>> /\ \E k \in 1..Len(columns) : annotation(class, columns[k]) = "None"
    THEN Printed(<<>>, "AttributeError")
    ELSE LET col_lens == [k \in 1..Len(columns) |->
                            col_len(class, objs, columns[k], 1, Len(columns[k]))]
         IN Printed(<<table_line([k \in 1..Len(columns) |-> Upper(columns[k])],
                                 col_lens, 1)>>
                    \o [j \in 1..Len(objs) |->
                          table_line([k \in 1..Len(columns) |->
                                        str_of_field(class, objs[j], columns[k])],
                                     col_lens, 1)],
                    "none")

---------------------------------------------------------------------------
(* The input documents: snapshots in the format of `juju status --format   *)
(* json`, built around the scenario of a machine "0", a principal          *)
(* application ubuntu and a subordinate application ntp.                    *)

MachineDoc(id, hostname, ips, containers) ==
    [name |-> id,
     keys |-> {"hostname", "ip-addresses", "series", "hardware"}
              \cup (IF containers = <<>> THEN {} ELSE {"containers"}),
     hostname |-> hostname,
     ip_addresses |-> ips,
     series |-> "jammy",
     base |-> [name |-> "ubuntu", channel |-> "22.04"],
     hardware |-> "arch=amd64",
     containers |-> containers]

\* a unit entry; machine "" is a subordinate's entry, which has no machine;
\* subordinates "absent" is an entry without the key
UnitDoc(name, machine, subordinates, address) ==
    [name |-> name,
     keys |-> status_keys
              \cup (IF machine = "" THEN {} ELSE {"machine"})
              \cup (IF subordinates = "absent" THEN {} ELSE {"subordinates"}),
     machine |-> machine,
     subordinates |-> IF subordinates = "absent" THEN <<>>
                      ELSE <<[name |-> subordinates,
                              keys |-> status_keys,
                              workload |-> "active",
                              agent |-> "idle",
                              public_address |-> address,
                              leader |-> FALSE]>>,
     workload |-> "active",
     agent |-> "idle",
     public_address |-> address,
     leader |-> FALSE]

\* an application entry; with_charm: the entry has the key "charm", the
\* charm's URL, next to "charm-name"; with_units: the entry has a units
\* mapping
AppDoc(name, with_charm, subordinate_to, with_units, units) ==
    [name |-> name,
     keys |-> {"charm-name", "charm-rev"}
              \cup (IF with_charm THEN {"charm"} ELSE {})
              \cup (IF subordinate_to = <<>> THEN {} ELSE {"subordinate-to"})
              \cup (IF with_units THEN {"units"} ELSE {}),
     charm |-> "ch:" \o name,
     charm_name |-> name,
     charm_rev |-> 1,
     subordinate_to |-> subordinate_to,
     units |-> units]

\* ips0: the addresses of machine "0"; m1: the machine ubuntu/1 names;
\* subs0, subs1: the subordinate of ubuntu/0 and of ubuntu/1; with_charm: see
\* AppDoc; idle: a principal application without units comes last
Snapshot(ips0, m1, subs0, subs1, with_charm, idle) ==
    [keys |-> {"applications", "machines"},
     machines |-> <<
         MachineDoc("0", "juju-abc", ips0,
                    <<MachineDoc("0/lxd/0", "juju-lxd", <<"10.0.1.7">>, <<>>)>>),
         MachineDoc("1", "juju-def", <<"10.0.0.9">>, <<>>) >>,
     applications |-> <<
         AppDoc("ubuntu", with_charm, <<>>, TRUE, <<
             UnitDoc("ubuntu/0", "0", subs0, ips0[1]),
             UnitDoc("ubuntu/1", m1, subs1, "10.0.0.9") >>),
         AppDoc("ntp", with_charm, <<"ubuntu">>, FALSE, <<>>) >>
         \o (IF idle THEN <<AppDoc("idle", with_charm, <<>>, FALSE, <<>>)>> ELSE <<>>)]

Snapshots ==
    { Snapshot(ips0, m1, subs0, subs1, with_charm, idle) :
        ips0 \in {<<"10.0.0.5">>, <<"10.0.0.5", "10.0.0.6">>},
        m1 \in {"1", "9", "0/lxd/0"},
        subs0 \in {"absent", "ntp/0"},
        subs1 \in {"absent", "ntp/1", "ghost/0"},
        with_charm \in BOOLEAN,
        idle \in BOOLEAN }

\* the filter strings a command line is made of
FilterPool ==
    {"unit~ubuntu", "app=ubuntu", "a^=ntp", "charm^=foo", "charm~ubu",
     "machine=0", "hostname=juju-abc", "host~juju",
     "ip=10.0.0.5", "ip=10.0.0.6", "ip~10.0.0",
     "hostname=~juju.a", "charm_rev>=1", "leader=true", "subordinate_to=ubuntu/0",
     "app=ghost"}

\* the lists of at most n members of pool
RECURSIVE ListsUpTo(_, _)
ListsUpTo(pool, n) ==
    IF n = 0 THEN {<<>>}
    ELSE LET shorter == ListsUpTo(pool, n - 1)
         IN shorter \cup {Append(l, x) : l \in shorter, x \in pool}

\* the characters of the filter strings enumerated exhaustively
Alphabet == {"a", "x", "=", "!", "^", "~", ">", "<"}

\* the strings of at most n characters of Alphabet
RECURSIVE StringsUpTo(_)
StringsUpTo(n) ==
    IF n = 0 THEN {""}
    ELSE LET shorter == StringsUpTo(n - 1)
         IN shorter \cup {s \o c : s \in shorter, c \in Alphabet}

\* every alias of every kind
Aliases ==
    UNION {{ObjectType[k].value[j] : j \in 1..Len(ObjectType[k].value)} :
             k \in 1..Len(ObjectType)}

\* the filter strings given to the parsers one at a time
ParseInputs ==
    StringsUpTo(MaxLen)
    \cup {"foo", "app=!bar", "app=nova-compute", "hostname~ubun", "app==nova-compute"}
    \cup {f \o ALL_FILTERS_unsorted[k][1] \o s :
            f \in {"app", "charm_rev", "Unit"},
            k \in 1..Len(ALL_FILTERS_unsorted),
            s \in {"", "nova-compute", "7", "a_b"}}
    \cup {f \o FilterMode[k].value \o s :
            f \in Aliases \cup {"App", "foo", ""},
            k \in 1..Len(FilterMode),
            s \in {"", "nova-compute", "ubun", "a_b"}}

---------------------------------------------------------------------------
(* The invocation: the command line is parsed, the snapshot is queried.    *)

Init ==
    /\ status \in Snapshots
    /\ filter_strs \in ListsUpTo(FilterPool, MaxFilters)
    /\ filters = <<>>
    /\ cli_filters = <<>>
    /\ result = Generated(<<>>, "none")
    /\ args = [object |-> "", columns |-> <<>>]
    /\ objects = Return(<<>>)
    /\ filtered_objects = Return(<<>>)
    /\ stdout = Printed(<<>>, "none")
    /\ call = [function |-> "", argument |-> ""]
    /\ returned = Return(None)
    /\ pc = "start"

\* parse_filter_string on strs[i..], up to and with the first failure
RECURSIVE parse_filter_strings_from(_, _)
parse_filter_strings_from(strs, i) ==
    IF i > Len(strs) THEN <<>>
    ELSE LET parsed == parse_filter_string(strs[i])
         IN IF parsed.exc # "none" THEN <<parsed>>
            ELSE <<parsed>> \o parse_filter_strings_from(strs, i + 1)

\* parse_filter on strs[i..], up to and with the first failure
RECURSIVE parse_filters_from(_, _)
parse_filters_from(strs, i) ==
    IF i > Len(strs) THEN <<>>
    ELSE LET parsed == parse_filter(strs[i])
         IN IF parsed.exc # "none" THEN <<parsed>>
            ELSE <<parsed>> \o parse_filters_from(strs, i + 1)

\* argparse applies utils.parse_filter_string to every filter string
ParseFilters ==
    /\ pc = "start"
    /\ filters' = parse_filter_strings_from(filter_strs, 1)
    /\ pc' = IF \E i \in 1..Len(filters') : filters'[i].exc # "none"
             THEN "parse_error" ELSE "parsed"
    /\ UNCHANGED <<status, filter_strs, cli_filters, result>>
    /\ UNCHANGED <<args, objects, filtered_objects, stdout, call, returned>>

\* FilterUnits, were filter_units to consume the list of filters it is given
FilterUnits_consuming_filters ==
    /\ pc = "parsed"
    /\ result' = filter_units(status, filters)
    /\ filters' = <<>>
    /\ pc' = IF result'.exc = "none" THEN "done" ELSE "failed"
    /\ UNCHANGED <<status, filter_strs, cli_filters>>
    /\ UNCHANGED <<args, objects, filtered_objects, stdout, call, returned>>

\* the caller consumes filter_units(status, filters)
FilterUnits ==
    /\ pc = "parsed"
    /\ result' = filter_units(status, filters)
    /\ pc' = IF result'.exc = "none" THEN "done" ELSE "failed"
    /\ UNCHANGED <<status, filter_strs, filters, cli_filters>>
    /\ UNCHANGED <<args, objects, filtered_objects, stdout, call, returned>>

\* argparse applies filters.parse_filter to every filter string
CliParseFilters ==
    /\ pc = "start"
    /\ cli_filters' = parse_filters_from(filter_strs, 1)
    /\ pc' = IF \E i \in 1..Len(cli_filters') : cli_filters'[i].exc # "none"
             THEN "cli_parse_error" ELSE "cli_parsed"
    /\ UNCHANGED <<status, filter_strs, filters, result>>
    /\ UNCHANGED <<args, objects, filtered_objects, stdout, call, returned>>

\* main, lines 25-35: the class of the objects args.object asks for, "None"
\* when it is no alias of an application, a machine or a unit
object_class(object) ==
    IF InTuple(object, ObjectType[2].value) THEN "Application"
    ELSE IF InTuple(object, ObjectType[4].value) THEN "Machine"
    ELSE IF InTuple(object, ObjectType[3].value) THEN "Unit"
    ELSE "None"

\* main, lines 25-35: objects
collect(st, object) ==
    CASE object_class(object) = "Application" -> collectors_get_applications(st)
      [] object_class(object) = "Machine" -> collectors_get_machines(st)
      [] object_class(object) = "Unit" -> collectors_get_units(st)
      [] OTHER -> Raise("KeyError")

\* the objects the command line may ask for
ObjectArgs == {"app", "machines", "unit", "ip"}

\* the column lists the command line may give; none given is <<>>
ColumnLists == {<<>>, <<"hostname">>}

\* main, lines 25-38: what it collected, what it kept of that and what it
\* printed
main(st, object, fs, columns) ==
    LET class == object_class(object)
        Table(collected, filtered) ==
            [objects |-> collected,
             filtered_objects |-> filtered,
             stdout |-> IF filtered.exc # "none" THEN Printed(<<>>, filtered.exc)
                        ELSE print_table(class, filtered.val,
                                         IF columns = <<>> THEN annotation_keys(class)
                                         ELSE columns)]
        Filtered(collected) ==
            LET Kept(filtered) == Table(collected, filtered)
            IN IF collected.exc # "none"
               THEN Table(collected, Raise(collected.exc))
               ELSE Value({Kept(v) : v \in
                             {filter_objects(class, fs, collected.val, 1, <<>>)}})
    IN Value({Filtered(v) : v \in {collect(st, object)}})

\* main: the objects are collected, filtered and printed
Main ==
    /\ pc = "cli_parsed"
    /\ \E object \in ObjectArgs, columns \in ColumnLists :
          /\ args' = [object |-> object, columns |-> columns]
          /\ \E done \in {main(status, object, cli_filters, columns)} :
                /\ objects' = done.objects
                /\ filtered_objects' = done.filtered_objects
                /\ stdout' = done.stdout
    /\ pc' = IF stdout'.exc = "none" THEN "printed" ELSE "cli_failed"
    /\ UNCHANGED <<status, filter_strs, filters, cli_filters, result>>
    /\ UNCHANGED <<call, returned>>

Next == ParseFilters \/ FilterUnits \/ CliParseFilters \/ Main

Spec == Init /\ [][Next]_vars

\* the parsers alone: one filter string, any of ParseInputs
InitParse ==
    /\ status = Snapshot(<<"10.0.0.5">>, "1", "ntp/0", "absent", TRUE, FALSE)
    /\ filter_strs \in {<<s>> : s \in ParseInputs}
    /\ filters = <<>>
    /\ cli_filters = <<>>
    /\ result = Generated(<<>>, "none")
    /\ args = [object |-> "", columns |-> <<>>]
    /\ objects = Return(<<>>)
    /\ filtered_objects = Return(<<>>)
    /\ stdout = Printed(<<>>, "none")
    /\ call = [function |-> "", argument |-> ""]
    /\ returned = Return(None)
    /\ pc = "start"

NextParse == ParseFilters \/ CliParseFilters

SpecParse == InitParse /\ [][NextParse]_vars

---------------------------------------------------------------------------
(* The same query, invoked a second time.                                  *)

\* the caller consumes filter_units(status, filters) once more
FilterUnitsAgain ==
    /\ pc \in {"done", "failed"}
    /\ call' = [function |-> "filter_units", argument |-> ""]
    /\ returned' = filter_units(status, filters)
    /\ pc' = "queried_again"
    /\ UNCHANGED <<status, filter_strs, filters, cli_filters, result>>
    /\ UNCHANGED <<args, objects, filtered_objects, stdout>>

\* main is run once more on the same arguments
MainAgain ==
    /\ pc \in {"printed", "cli_failed"}
    /\ call' = [function |-> "main", argument |-> args.object]
    /\ returned' = main(status, args.object, cli_filters, args.columns)
    /\ pc' = "printed_again"
    /\ UNCHANGED <<status, filter_strs, filters, cli_filters, result>>
    /\ UNCHANGED <<args, objects, filtered_objects, stdout>>

\* the snapshots whose applications all carry the key "charm" and whose
\* principal applications all have a units mapping
InitTwice ==
    /\ Init
    /\ \A i \in 1..Len(status.applications) :
          /\ "charm" \in status.applications[i].keys
          /\ \/ "units" \in status.applications[i].keys
             \/ "subordinate-to" \in status.applications[i].keys

NextTwice == Next \/ FilterUnitsAgain \/ MainAgain

SpecTwice == InitTwice /\ [][NextTwice]_vars

---------------------------------------------------------------------------
(* The resolvers of jockey/utils.py and the collectors, called directly on *)
(* a snapshot.                                                             *)

\* a unit name no principal unit of any snapshot lists
UnlistedUnit == "ntp/7"

\* the unit names a resolver is called with: those of the snapshot, and the
\* unlisted one
UnitArguments(st) ==
    UNION {{units_with_subordinates(st.applications[i].units, 1)[k] :
              k \in 1..Len(units_with_subordinates(st.applications[i].units, 1))} :
             i \in {i \in 1..Len(st.applications) : "units" \in st.applications[i].keys}}
    \cup {UnlistedUnit}

\* the machine ids a resolver is called with: the machines of the snapshot
\* and their containers
MachineArguments(st) ==
    {st.machines[i].name : i \in 1..Len(st.machines)}
    \cup UNION {{st.machines[i].containers[j].name :
                    j \in 1..Len(st.machines[i].containers)} :
                 i \in 1..Len(st.machines)}

\* an address and a hostname that occur nowhere in a snapshot
NoSuchIp == "10.9.9.9"
NoSuchHostname == "juju-xyz"

\* the records of the machines of the snapshot and of their containers
MachineRecords(st) ==
    {st.machines[i] : i \in 1..Len(st.machines)}
    \cup UNION {{st.machines[i].containers[j] :
                    j \in 1..Len(st.machines[i].containers)} :
                 i \in 1..Len(st.machines)}

\* the addresses a reverse lookup is called with
IpArguments(st) ==
    UNION {{m.ip_addresses[k] : k \in 1..Len(m.ip_addresses)} : m \in MachineRecords(st)}
    \cup {NoSuchIp}

\* the hostnames a reverse lookup is called with
HostnameArguments(st) ==
    {m.hostname : m \in MachineRecords(st)} \cup {NoSuchHostname}

InitResolve ==
    /\ status \in Snapshots
    /\ filter_strs = <<>>
    /\ filters = <<>>
    /\ cli_filters = <<>>
    /\ result = Generated(<<>>, "none")
    /\ args = [object |-> "", columns |-> <<>>]
    /\ objects = Return(<<>>)
    /\ filtered_objects = Return(<<>>)
    /\ stdout = Printed(<<>>, "none")
    /\ call = [function |-> "", argument |-> ""]
    /\ returned = Return(None)
    /\ pc = "start"

\* the caller calls function(status, argument) and keeps the outcome
Called(function, argument, outcome) ==
    /\ pc = "start"
    /\ call' = [function |-> function, argument |-> argument]
    /\ returned' = outcome
    /\ pc' = "resolved"
    /\ UNCHANGED <<status, filter_strs, filters, cli_filters, result>>
    /\ UNCHANGED <<args, objects, filtered_objects, stdout>>

ApplicationToCharm ==
    \E i \in 1..Len(status.applications) :
        Called("application_to_charm", status.applications[i].name,
               application_to_charm(status, Str(status.applications[i].name)))

SubordinateUnitToPrincipalUnit ==
    \E unit_name \in UnitArguments(status) :
        Called("subordinate_unit_to_principal_unit", unit_name,
               subordinate_unit_to_principal_unit(status, unit_name))

UnitToMachine ==
    \E unit_name \in UnitArguments(status) :
        Called("unit_to_machine", unit_name, unit_to_machine(status, unit_name))

MachineToHostname ==
    \E machine \in MachineArguments(status) :
        Called("machine_to_hostname", machine, machine_to_hostname(status, machine))

\* the caller consumes the generator machine_to_ips(status, machine)
MachineToIps ==
    \E machine \in MachineArguments(status) :
        Called("machine_to_ips", machine, machine_to_ips(status, machine))

IpToMachine ==
    \E ip \in IpArguments(status) :
        Called("ip_to_machine", ip, ip_to_machine(status, ip))

HostnameToMachine ==
    \E hostname \in HostnameArguments(status) :
        Called("hostname_to_machine", hostname, hostname_to_machine(status, hostname))

\* collectors.get_units(status)
CollectorsGetUnits ==
    \E st \in {status} :
        Called("collectors.get_units", "", collectors_get_units(st))

NextResolve ==
    \/ ApplicationToCharm
    \/ SubordinateUnitToPrincipalUnit
    \/ UnitToMachine
    \/ MachineToHostname
    \/ MachineToIps
    \/ IpToMachine
    \/ HostnameToMachine
    \/ CollectorsGetUnits

SpecResolve == InitResolve /\ [][NextResolve]_vars

---------------------------------------------------------------------------
(* Unit queries.                                                           *)

\* x in seq
InSeq(x, seq) == \E i \in 1..Len(seq) : seq[i] = x

\* the units of the applications i.. that have a units mapping: each unit,
\* followed by its subordinates
RECURSIVE UnitsInSnapshotOrder(_, _)
UnitsInSnapshotOrder(apps, i) ==
    IF i > Len(apps) THEN <<>>
    ELSE (IF "units" \in apps[i].keys
          THEN units_with_subordinates(apps[i].units, 1) ELSE <<>>)
         \o UnitsInSnapshotOrder(apps, i + 1)

\* the principal units of the snapshot, as entries of their units mappings
PrincipalUnits(st) ==
    UNION {{st.applications[i].units[j] : j \in 1..Len(st.applications[i].units)} :
             i \in {i \in 1..Len(st.applications) : "units" \in st.applications[i].keys}}

\* the ids of the machines and of their containers
MachineIds(st) ==
    {st.machines[i].name : i \in 1..Len(st.machines)}
    \cup UNION {{st.machines[i].containers[j].name :
                    j \in 1..Len(st.machines[i].containers)} :
                 i \in 1..Len(st.machines)}

\* the pairs <<p, s>> of a principal unit entry p and the name s of a
\* subordinate attached to it
Attached(st) ==
    UNION {{<<p, p.subordinates[k].name>> : k \in 1..Len(p.subordinates)} :
             p \in PrincipalUnits(st)}

\* every unit is on a machine of the snapshot, and every subordinate belongs
\* to a subordinate application of the snapshot
Conforms(st) ==
    /\ \A p \in PrincipalUnits(st) : p.machine \in MachineIds(st)
    /\ \A a \in Attached(st) :
          LET app == Split(a[2], "/")[1]
          IN /\ HasEntry(st.applications, app)
             /\ "subordinate-to" \in Entry(st.applications, app).keys

\* every filter of fs is of one of the kinds
OnlyKinds(fs, kinds) == \A i \in 1..Len(fs) : fs[i].obj_type \in kinds

MachineKinds == {"MACHINE", "HOSTNAME", "IP"}

\* C1: a unit query that completes yields a unit exactly when that unit is
\* yielded by each of the single-predicate queries built from the members
\* of the predicate list (where those complete as well).
C1_ConjunctionLaw ==
    (/\ pc = "done"
     /\ \A i \in 1..Len(filters) : filter_units(status, <<filters[i]>>).exc = "none")
    => \A k \in 1..Len(get_units(status).units) :
         LET e == get_units(status).units[k]
         IN InSeq(e, result.units)
              <=> \A i \in 1..Len(filters) :
                     InSeq(e, filter_units(status, <<filters[i]>>).units)

\* C2: in a completed unit query made of ip predicates, a unit is retained
\* exactly when each ip predicate matches at least one address of the full
\* ip-addresses list of the unit's machine, however many ip predicates there
\* are and wherever they stand in the list.
C2_AnyOfIpSemantics ==
    (pc = "done" /\ filters # <<>> /\ OnlyKinds(filters, {"IP"}))
    => \A k \in 1..Len(get_units(status).units) :
         LET e == get_units(status).units[k]
             ips == machine_to_ips(status, unit_to_machine(status, e).val.s).val
         IN InSeq(e, result.units)
              <=> \A i \in 1..Len(filters) :
                     \E n \in 1..Len(ips) :
                        check_filter_match(filters[i], Str(ips[n])).val

\* C3: on a conforming snapshot, a unit query with an empty predicate list
\* completes and returns every unit, in snapshot order, also when an
\* application has no units mapping or a unit has no subordinates mapping.
C3_EmptyListReturnsAll ==
    (pc \in {"done", "failed"} /\ filters = <<>> /\ Conforms(status))
    => result = Generated(UnitsInSnapshotOrder(status.applications, 1), "none")

\* C4: on a conforming snapshot, a subordinate unit s attached to the
\* principal unit p resolves to the machine of p, and a unit query made of
\* machine, hostname and ip predicates retains s exactly when it retains p.
C4_SubordinateInheritsMachine ==
    (/\ pc \in {"done", "failed"}
     /\ filters # <<>>
     /\ OnlyKinds(filters, MachineKinds)
     /\ Conforms(status))
    => \A a \in Attached(status) :
         /\ unit_to_machine(status, a[2]) = Return(Str(a[1].machine))
         /\ InSeq(a[2], result.units) <=> InSeq(a[1].name, result.units)

\* C5: when a unit names a machine that is not in the snapshot, a unit query
\* with at least one machine, hostname or ip predicate ends in an error; it
\* never completes.
C5_AbsentMachineIsAnError ==
    (/\ pc \in {"done", "failed"}
     /\ \E i \in 1..Len(filters) : filters[i].obj_type \in MachineKinds
     /\ \E p \in PrincipalUnits(status) : p.machine \notin MachineIds(status))
    => pc = "failed"

\* C6: in a unit query made of application and charm predicates, a unit
\* whose application, or whose application's charm, cannot be resolved
\* matches no predicate on it, whatever the operator, and the query
\* completes: no such unit is retained and nothing is raised.
C6_LookupMissIsNonMatching ==
    (/\ pc \in {"done", "failed"}
     /\ filters # <<>>
     /\ OnlyKinds(filters, {"APP", "CHARM"})
     /\ get_units(status).exc = "none")
    => /\ pc = "done"
       /\ \A k \in 1..Len(result.units) :
            LET app == unit_to_application(status, Str(result.units[k])).val
            IN /\ filters_of_type(filters, "APP") # <<>> => app # None
               /\ filters_of_type(filters, "CHARM") # <<>>
                    => application_to_charm(status, app).val # None

---------------------------------------------------------------------------
(* The filter parsers.                                                     *)

\* every character that occurs in an operator of either operator table
operator_chars == "=!^~<>"

NoOperatorChars(s) == \A i \in 1..Len(s) : ~CharIn(Char(s, i), operator_chars)

\* the operator tokens of both tables
OperatorTokens ==
    {FilterMode[k].value : k \in 1..Len(FilterMode)}
    \cup {ALL_FILTERS_unsorted[k][1] : k \in 1..Len(ALL_FILTERS_unsorted)}

\* s is text without operator characters, one operator token, and text
\* without operator characters
ExactlyOneOperatorToken(s) ==
    \E i \in 0..Len(s), j \in 0..Len(s) :
        /\ i < j
        /\ SubSeq(s, i + 1, j) \in OperatorTokens
        /\ NoOperatorChars(Upto(s, i))
        /\ NoOperatorChars(From(s, j))

\* an operand parse_filter_string has no reason to refuse
ValidOperand(s) ==
    /\ s # ""
    /\ \A i \in 1..Len(s) :
          /\ ~InTuple(Char(s, i), char_blacklist)
          /\ ~CharIn(Char(s, i), filter_code_chars)

\* C7: a filter string that does not hold exactly one operator token, such
\* as "foo" and "app=!bar", is rejected by the parser that reads it: neither
\* parse_filter_string nor parse_filter yields a predicate for it.
C7_RejectsUnlessOneOperatorToken ==
    (pc \in {"parsed", "cli_parsed"} /\ Len(filter_strs) = 1)
        => ExactlyOneOperatorToken(filter_strs[1])

\* C8: for every alias a of a kind K, every operator token o of FilterMode
\* and every valid operand s, parse_filter_string(a + o + s) returns
\* exactly (K, the mode o denotes, s).
C8_ParsesAliasOperatorOperand ==
    \A k \in 1..Len(ObjectType), m \in 1..Len(FilterMode) :
      \A j \in 1..Len(ObjectType[k].value) :
        LET prefix == ObjectType[k].value[j] \o FilterMode[m].value
        IN (/\ pc \in {"parsed", "parse_error"}
            /\ Len(filter_strs) = 1
            /\ StartsAt(filter_strs[1], prefix, 0)
            /\ ValidOperand(From(filter_strs[1], Len(prefix))))
           => /\ pc = "parsed"
              /\ filters = <<JockeyFilter(ObjectType[k].name, FilterMode[m].name,
                                          From(filter_strs[1], Len(prefix)))>>

C8_Witness ==
    /\ pc = "parsed"
    /\ filter_strs = <<"hostname~ubun">>
    /\ filters = <<JockeyFilter("HOSTNAME", "CONTAINS", "ubun")>>

\* C9: in a filter string field + op + operand, with op a two-character
\* operator of the table and no operator character in field and operand,
\* the parser selects op itself: parse_filter returns the text before op as
\* the field, the text after it as the operand and the function of op, and
\* parse_filter_string reads op as one filter code, of the mode op denotes,
\* with the text after it as the content.
C9_LongestTokenFirst ==
    /\ \A k \in 1..Len(ALL_FILTERS_unsorted) :
         LET op == ALL_FILTERS_unsorted[k][1]
             i == IF Len(filter_strs) = 1 THEN Find(filter_strs[1], op) ELSE -1
         IN (/\ pc \in {"cli_parsed", "cli_parse_error"}
             /\ Len(op) = 2
             /\ i >= 0
             /\ NoOperatorChars(Upto(filter_strs[1], i))
             /\ NoOperatorChars(From(filter_strs[1], i + 2)))
            => /\ pc = "cli_parsed"
               /\ cli_filters = <<CliFilter(Upto(filter_strs[1], i),
                                            From(filter_strs[1], i + 2),
                                            ALL_FILTERS_unsorted[k][2])>>
    /\ \A m \in 1..Len(FilterMode) :
         LET op == FilterMode[m].value
             i == IF Len(filter_strs) = 1 THEN Find(filter_strs[1], op) ELSE -1
         IN (/\ pc \in {"parsed", "parse_error"}
             /\ Len(op) = 2
             /\ i >= 0
             /\ NoOperatorChars(Upto(filter_strs[1], i))
             /\ NoOperatorChars(From(filter_strs[1], i + 2)))
            => IF pc = "parsed"
               THEN /\ filters[1].mode = FilterMode[m].name
                    /\ filters[1].content = From(filter_strs[1], i + 2)
                    /\ filters[1].obj_type
                         = convert_object_abbreviation(Upto(filter_strs[1], i))
               ELSE /\ filters[1].content
                         # "Incorrect number of filter codes detected."
                    /\ ~StartsAt(filters[1].content, "Invalid filter mode", 0)

C9_Witness ==
    /\ pc = "cli_parsed"
    /\ filter_strs = <<"app>=7">>
    /\ cli_filters = <<CliFilter("app", "7", "greater_than_or_equals_filter")>>

\* C10: a filter string with nothing after its operator token is rejected
\* by the parser that reads it: no parsed predicate has an empty operand.
C10_NoEmptyOperand ==
    /\ pc = "parsed" => \A i \in 1..Len(filters) : filters[i].content # ""
    /\ pc = "cli_parsed" => \A i \in 1..Len(cli_filters) : cli_filters[i].query # ""

\* the text of s before its first filter code character, all of s when it
\* has none
PrefixBeforeOperator(s) ==
    LET codes == {i \in 1..Len(s) : CharIn(Char(s, i), filter_code_chars)}
    IN IF codes = {} THEN s
       ELSE Upto(s, (CHOOSE i \in codes : \A j \in codes : i <= j) - 1)

\* the kinds that list the alias
KindsOf(alias) ==
    {ObjectType[k].name : k \in {k \in 1..Len(ObjectType) :
                                   InTuple(alias, ObjectType[k].value)}}

\* C11: every alias, as written, in lower and in upper case, is mapped by
\* convert_object_abbreviation to the one kind that lists it, no alias is
\* listed by two kinds, and parse_filter_string fails whenever the prefix
\* before the operator, the empty prefix included, is not an alias; where it
\* succeeds the kind is the one that lists the prefix.
C11_AliasResolution ==
    (pc \in {"parsed", "parse_error"} /\ Len(filter_strs) = 1)
      => LET prefix == PrefixBeforeOperator(filter_strs[1])
             alias == Lower(prefix)
         IN IF alias \in Aliases
            THEN /\ Cardinality(KindsOf(alias)) = 1
                 /\ \A v \in {prefix, alias, Upper(prefix)} :
                       convert_object_abbreviation(v) \in KindsOf(alias)
                 /\ pc = "parsed" => filters[1].obj_type \in KindsOf(alias)
            ELSE /\ pc = "parse_error"
                 /\ filters[1].exc = "AssertionError"

C11_Witness ==
    /\ pc = "parse_error"
    /\ filter_strs = <<"foo=nova-compute">>
    /\ filters = <<AssertionError("Invalid object type detected in filter string.")>>

\* filter_str is field + op + value for an operator op of the help text,
\* field and value not empty and without operator characters
UsesHelpOperator(filter_str) ==
    \E k \in 1..Len(filters_help_operators) :
        LET op == filters_help_operators[k]
            i == Find(filter_str, op)
        IN /\ i > 0
           /\ i + Len(op) < Len(filter_str)
           /\ NoOperatorChars(Upto(filter_str, i))
           /\ NoOperatorChars(From(filter_str, i + Len(op)))

\* C12: parse_filter returns a filter for every filter string field + op +
\* value whose op is one of the operators its help text documents ("=", "!="
\* and "~"), and for both examples of the help text.
C12_HelpOperatorsAccepted ==
    (/\ pc \in {"cli_parsed", "cli_parse_error"}
     /\ Len(filter_strs) = 1
     /\ \/ UsesHelpOperator(filter_strs[1])
        \/ InTuple(filter_strs[1], filters_help_examples))
    => pc = "cli_parsed"

---------------------------------------------------------------------------
(* The command line: collection, filtering and projection.                 *)

\* the columns print_table is given: args.columns or headers
RequestedColumns ==
    IF args.columns = <<>> THEN annotation_keys(object_class(args.object))
    ELSE args.columns

\* a requested column is no field of the kind asked for
UnknownColumnRequested ==
    \E k \in 1..Len(RequestedColumns) :
        annotation(object_class(args.object), RequestedColumns[k]) = "None"

\* C13: when the objects were collected and filtered and a requested column
\* is no field of their kind, the projection ends in an error and prints
\* nothing, neither header nor row, whether or not the filtered list is
\* empty.
C13_UnknownColumnRejected ==
    (/\ pc \in {"printed", "cli_failed"}
     /\ object_class(args.object) # "None"
     /\ filtered_objects.exc = "none"
     /\ UnknownColumnRequested)
    => /\ stdout.exc # "none"
       /\ stdout.lines = <<>>

Classes == {"Application", "Machine", "Unit"}

\* field is a field of one of the kinds
KnownField(field) == \E class \in Classes : annotation(class, field) # "None"

\* C14: a query for applications or for machines whose predicates are on
\* fields of the kinds, at least one of them on a field of another kind
\* than the one asked for (such as ip on an application query), is
\* evaluated: the filtering completes instead of failing.
C14_CrossKindPredicatesSupported ==
    (/\ pc \in {"printed", "cli_failed"}
     /\ object_class(args.object) \in {"Application", "Machine"}
     /\ objects.exc = "none"
     /\ \A i \in 1..Len(cli_filters) : KnownField(cli_filters[i].field)
     /\ \E i \in 1..Len(cli_filters) :
           annotation(object_class(args.object), cli_filters[i].field) = "None")
    => filtered_objects.exc = "none"

---------------------------------------------------------------------------
(* The resolvers.                                                          *)

\* the Application entity of the application, among the collected apps
HasApplicationEntity(apps, app, charm) ==
    \E i \in 1..Len(apps) : apps[i].app = app /\ apps[i].charm = charm

\* C15: application_to_charm returns the charm-name of every application
\* whose record carries one, and every unit collectors.get_units builds
\* carries the charm of the Application entity of its application.
C15_CharmOfConsistent ==
    /\ (/\ pc = "resolved"
        /\ call.function = "application_to_charm"
        /\ "charm-name" \in Entry(status.applications, call.argument).keys)
       => returned
            = Return(Str(Entry(status.applications, call.argument).charm_name))
    /\ (/\ pc = "resolved"
        /\ call.function = "collectors.get_units"
        /\ returned.exc = "none")
       => \A k \in 1..Len(returned.val) :
            HasApplicationEntity(collectors_get_applications(status).val,
                                 returned.val[k].app, returned.val[k].charm)

\* the principal unit of a unit of the snapshot: itself, or the name of the
\* principal unit whose subordinates mapping lists it
PrincipalOf(st, unit_name) ==
    IF \E p \in PrincipalUnits(st) : p.name = unit_name THEN unit_name
    ELSE (CHOOSE a \in Attached(st) : a[2] = unit_name)[1].name

\* unit_name is listed by the subordinates mapping of a principal unit
Listed(st, unit_name) == \E a \in Attached(st) : a[2] = unit_name

\* the records of the containers of the snapshot
Containers(st) ==
    UNION {{st.machines[i].containers[j] : j \in 1..Len(st.machines[i].containers)} :
             i \in 1..Len(st.machines)}

C17_PrincipalUnitOf ==
    (/\ pc = "resolved"
     /\ call.function = "subordinate_unit_to_principal_unit"
     /\ call.argument # UnlistedUnit
     /\ Conforms(status))
    => returned = Return(Str(PrincipalOf(status, call.argument)))

\* C18: for a unit of a subordinate application that no principal unit
\* lists, the resolution of its principal unit, and of its machine, ends in
\* an error; it does not return.
C18_NoPrincipalIsAnError ==
    (/\ pc = "resolved"
     /\ call.function \in {"subordinate_unit_to_principal_unit", "unit_to_machine"}
     /\ ~Listed(status, call.argument)
     /\ ~(\E p \in PrincipalUnits(status) : p.name = call.argument))
    => returned.exc # "none"

\* C20: for a container, machine_to_hostname returns the hostname and
\* machine_to_ips the ip-addresses of the container's own record in the
\* containers mapping of its physical machine.
C20_ContainerResolution ==
    \A c \in Containers(status) :
      (pc = "resolved" /\ call.argument = c.name)
      => /\ call.function = "machine_to_hostname"
              => returned = Return(Str(c.hostname))
         /\ call.function = "machine_to_ips"
              => returned = Return(c.ip_addresses)

\* the snapshot is well formed but for the machine ids its units name:
\* every application carries the key "charm", every principal application
\* has a units mapping, and every subordinate belongs to a subordinate
\* application of the snapshot
WellFormedButForMachines(st) ==
    /\ \A i \in 1..Len(st.applications) :
          /\ "charm" \in st.applications[i].keys
          /\ \/ "units" \in st.applications[i].keys
             \/ "subordinate-to" \in st.applications[i].keys
    /\ \A a \in Attached(st) :
          LET app == Split(a[2], "/")[1]
          IN /\ HasEntry(st.applications, app)
             /\ "subordinate-to" \in Entry(st.applications, app).keys

\* the fields of a unit that need no machine, and that a filter can be on
UnitFieldsOffMachine == {"unit", "app", "charm", "workload", "agent", "leader", "subordinate"}

\* C19: a unit query without machine, hostname or ip predicate resolves no
\* machine: it completes, also when a unit names a machine id that is not in
\* the snapshot.  For filter_units, and for the unit query of main.
C19_LazyMachineResolution ==
    /\ (/\ pc \in {"done", "failed"}
        /\ WellFormedButForMachines(status)
        /\ \A i \in 1..Len(filters) : filters[i].obj_type \notin MachineKinds)
       => pc = "done"
    /\ (/\ pc \in {"printed", "cli_failed"}
        /\ object_class(args.object) = "Unit"
        /\ WellFormedButForMachines(status)
        /\ \A i \in 1..Len(cli_filters) : cli_filters[i].field \in UnitFieldsOffMachine)
       => /\ objects.exc = "none"
          /\ filtered_objects.exc = "none"

\* C21: the reverse lookups invert the forward ones, containers included:
\* hostname_to_machine returns the id of the machine or container that has
\* the hostname, ip_to_machine the id of the one that has the address (the
\* hostnames and addresses of a snapshot being unique), and for a hostname
\* or an address that occurs nowhere the lookup returns None.
C21_ReverseLookups ==
    /\ (pc = "resolved" /\ call.function = "hostname_to_machine")
         => /\ \A m \in MachineRecords(status) :
                 m.hostname = call.argument => returned = Return(Str(m.name))
            /\ call.argument = NoSuchHostname => returned = Return(None)
    /\ (pc = "resolved" /\ call.function = "ip_to_machine")
         => /\ \A m \in MachineRecords(status) :
                 InSequence(call.argument, m.ip_addresses)
                   => returned = Return(Str(m.name))
            /\ call.argument = NoSuchIp => returned = Return(None)

---------------------------------------------------------------------------
(* The enumeration of the units.                                           *)

\* how often x occurs in seq
Occurrences(x, seq) == Cardinality({i \in 1..Len(seq) : seq[i] = x})

NoDuplicates(seq) == \A i, j \in 1..Len(seq) : seq[i] = seq[j] => i = j

\* sub, which has no duplicates, is made of members of seq, which has
\* none either, in the order they have in seq
IsSubsequence(sub, seq) ==
    /\ \A i \in 1..Len(sub) : InSeq(sub[i], seq)
    /\ \A i, j \in 1..Len(sub) :
          i < j => \E m, n \in 1..Len(seq) :
                      m < n /\ seq[m] = sub[i] /\ seq[n] = sub[j]

\* in listing, s comes after the principal unit entry p with nothing but
\* subordinates of p in between
DirectlyAfter(s, p, listing) ==
    \E i, j \in 1..Len(listing) :
       /\ i < j
       /\ listing[i] = p.name
       /\ listing[j] = s
       /\ \A k \in (i + 1)..j : InSeq(listing[k], Names(p.subordinates))

\* listing has every principal unit of the snapshot once, every subordinate
\* once and directly after the principal it is attached to, and nothing else
ExactEnumeration(st, listing) ==
    /\ \A p \in PrincipalUnits(st) : Occurrences(p.name, listing) = 1
    /\ \A a \in Attached(st) :
          Occurrences(a[2], listing) = 1 /\ DirectlyAfter(a[2], a[1], listing)
    /\ \A i \in 1..Len(listing) :
          \/ \E p \in PrincipalUnits(st) : listing[i] = p.name
          \/ \E a \in Attached(st) : listing[i] = a[2]

\* the names of a list of Unit entities
UnitNames(units) == [i \in 1..Len(units) |-> units[i].unit]

\* every application entry has the charm URL the unit collector reads
EveryApplicationHasCharm(st) ==
    \A i \in 1..Len(st.applications) : "charm" \in st.applications[i].keys

\* C22: on a conforming snapshot, get_units (which every unit query runs)
\* completes and lists each principal unit and each subordinate unit exactly
\* once, each subordinate directly after the principal it is attached to,
\* and so does the unit collector of the command line (where the
\* application entries have their charm URL); the result of a unit query,
\* whatever its predicate list, is a duplicate-free subsequence of the
\* listing of get_units, in the same relative order.
C22_ExactEnumeration ==
    /\ (pc \in {"done", "failed"} /\ Conforms(status))
         => /\ get_units(status).exc = "none"
            /\ ExactEnumeration(status, get_units(status).units)
            /\ NoDuplicates(result.units)
            /\ IsSubsequence(result.units, get_units(status).units)
    /\ (/\ pc \in {"printed", "cli_failed"}
        /\ object_class(args.object) = "Unit"
        /\ Conforms(status)
        /\ EveryApplicationHasCharm(status))
         => /\ objects.exc = "none"
            /\ ExactEnumeration(status, UnitNames(objects.val))

---------------------------------------------------------------------------
(* The fields as filter targets.                                           *)

\* C23: a filter of the command line whose field is declared on the class
\* of the collected objects evaluates to a boolean on every one of them
\* without raising, whatever the type of the field and whatever the
\* operator; a filter whose field is not declared on the class raises.
C23_DeclaredFieldsAreFilterTargets ==
    (pc \in {"printed", "cli_failed"} /\ objects.exc = "none")
    => \A i \in 1..Len(cli_filters), j \in 1..Len(objects.val) :
         \A outcome \in {apply_filter(object_class(args.object), cli_filters[i],
                                       objects.val[j])} :
            IF annotation(object_class(args.object), cli_filters[i].field) # "None"
            THEN outcome.exc = "none" /\ outcome.val \in BOOLEAN
            ELSE outcome.exc # "none"

=============================================================================
